---------------------------- MODULE Spec2Model ----------------------------
(***************************************************************************)
(* A model of src/src/main.rs of stock_prices: the marker scan             *)
(* (String::chomp), the numeric field parser (extract_pence), the          *)
(* per-stock extraction (download_price) and the batch loop                *)
(* (download_prices).                                                      *)
(*                                                                         *)
(* Documents, markers and messages are TLA+ strings; byte offsets of the   *)
(* Rust code are 0-based offsets here (all modelled text is ASCII, so a    *)
(* byte offset is a character offset).                                     *)
(***************************************************************************)
EXTENDS Integers, Sequences, FiniteSets, TLC

VARIABLES
    pc,          \* control point of the specification being run
    text,        \* the document as it was before any chomp
    body,        \* the String that chomp mutates (`body` of download_price)
    lastChomp,   \* SpecChomp: the last chomp call (marker, buffer before, result)
    input,       \* SpecPence: the &str handed to extract_pence
    penceResult, \* SpecPence: what extract_pence returned
    stock,       \* SpecPrice: the Stock of the download_price call
    source,      \* SpecPrice: its Source
    price,       \* SpecPrice: the local `price` of download_price
    step,        \* SpecPrice: the number of the next statement of the branch
    result,      \* SpecPrice: what download_price returned
    failedAt,    \* SpecPrice: the first statement whose Result was an Err
    fixture,     \* SpecPrice: the numbers the fetched document was written with
    raw,         \* Spec: the rows of stock.csv as read
    stocks,      \* Spec: `stocks` of main, the argument of download_prices
    sources,     \* Spec: `stock_sources` of main
    pos,         \* Spec: the position of the for loop of download_prices
    prices,      \* Spec: `prices` of download_prices
    errors,      \* Spec: `errors` of download_prices
    attempts,    \* Spec: the download_price calls made so far, in order
    panic        \* Spec: the message of the panic that ended the run, if any

docVars == <<text, body>>
chompVars == <<lastChomp>>
penceVars == <<input, penceResult>>
priceVars == <<stock, source, price, step, result, failedAt, fixture>>
batchVars == <<raw, stocks, sources, pos, prices, errors, attempts, panic>>

vars == <<pc, docVars, chompVars, penceVars, priceVars, batchVars>>

-----------------------------------------------------------------------------
(* Bounds of the model *)

MaxTextLen == 4
MaxMarkerLen == 2
MaxPenceLen == 3
MaxStocks == 3

-----------------------------------------------------------------------------
(* Strings *)

\* All strings over alphabet A of length at most n.
RECURSIVE StringsUpTo(_, _)
StringsUpTo(A, n) ==
    IF n = 0 THEN {""}
    ELSE LET shorter == StringsUpTo(A, n - 1)
         IN  shorter \cup {s \o c : s \in shorter, c \in A}

\* s[from..] of Rust, from a 0-based offset.
SliceFrom(s, from) == SubSeq(s, from + 1, Len(s))

\* s[..to] of Rust, to a 0-based exclusive offset.
SliceTo(s, to) == SubSeq(s, 1, to)

\* Whether pat lies in s at 0-based offset i.
MatchesAt(s, pat, i) ==
    /\ i >= 0
    /\ i + Len(pat) <= Len(s)
    /\ SubSeq(s, i + 1, i + Len(pat)) = pat

None == -1

\* The 0-based offsets at which pat occurs in s.
Occurrences(s, pat) == {i \in 0..(Len(s) - Len(pat)) : MatchesAt(s, pat, i)}

\* A search that returns the last occurrence (str::rfind) instead of the first.
FindLast(s, pat) ==
    LET hits == Occurrences(s, pat)
    IN  IF hits = {} THEN None ELSE CHOOSE i \in hits : \A j \in hits : j <= i

\* str::find: the 0-based offset of the first occurrence of pat in s, or None.
Find(s, pat) ==
    LET hits == Occurrences(s, pat)
    IN  IF hits = {} THEN None ELSE CHOOSE i \in hits : \A j \in hits : i <= j

-----------------------------------------------------------------------------
(* StockPriceError and its Display *)

NoError == [kind |-> "None", msg |-> ""]

CannotParseDocument(msg) == [kind |-> "CannotParseDocument", msg |-> msg]

\* ParseFloatError's Display texts (core::num::dec2flt).
CannotParseNumber(msg) == [kind |-> "CannotParseNumber", msg |-> msg]

\* reqwest::Error; its text is the transport's.
Request(msg) == [kind |-> "Request", msg |-> msg]

\* impl fmt::Display for StockPriceError
Display(e) ==
    IF e.kind = "CannotParseDocument" THEN "Cannot parse document, " \o e.msg
    ELSE e.msg

-----------------------------------------------------------------------------
(* StringExtensions::chomp *)

\* chomp that cuts at the start of the marker, keeping the marker in the buffer.
ChompKeepsMarker(self, s) ==
    LET idx == Find(self, s)
    IN  IF idx # None
        THEN [ok |-> TRUE, self |-> SliceFrom(self, idx), err |-> NoError]
        ELSE [ok |-> FALSE, self |-> self,
              err |-> CannotParseDocument("Cannot find " \o s \o " in string")]

\* self.chomp(s): the new value of self and the Result.
Chomp(self, s) ==
    LET idx == Find(self, s)
    IN  IF idx # None
        THEN [ok |-> TRUE, self |-> SliceFrom(self, idx + Len(s)), err |-> NoError]
        ELSE [ok |-> FALSE, self |-> self,
              err |-> CannotParseDocument("Cannot find " \o s \o " in string")]

-----------------------------------------------------------------------------
(* f32 values.  A value is the exact decimal m * 10^-e, kept normalised (no *)
(* trailing zero in the fraction, zero as 0 * 10^0), so that equal numbers  *)
(* are equal records.  The rounding of f32 is not modelled: the texts and   *)
(* differences of the model are short decimals.                             *)

RECURSIVE Normalise(_, _)
Normalise(m, e) ==
    IF m = 0 THEN [m |-> 0, e |-> 0]
    ELSE IF e > 0 /\ m % 10 = 0 THEN Normalise(m \div 10, e - 1)
    ELSE [m |-> m, e |-> e]

Dec(m, e) == Normalise(m, e)

RECURSIVE Pow10(_)
Pow10(n) == IF n = 0 THEN 1 ELSE 10 * Pow10(n - 1)

Zero == Dec(0, 0)

\* a + b on f32
F32AddWrong(a, b) ==
    LET e == IF a.e > b.e THEN a.e ELSE b.e
    IN  Dec(a.m * Pow10(e - a.e) + b.m * Pow10(e - b.e), e)

\* a - b on f32
F32Sub(a, b) ==
    LET e == IF a.e > b.e THEN a.e ELSE b.e
    IN  Dec(a.m * Pow10(e - a.e) - b.m * Pow10(e - b.e), e)

-----------------------------------------------------------------------------
(* Characters *)

AsciiDigits == "0123456789"
AsciiUpper == "ABCDEFGHIJKLMNOPQRSTUVWXYZ"
AsciiLower == "abcdefghijklmnopqrstuvwxyz"

CharsOf(s) == {SubSeq(s, i, i) : i \in 1..Len(s)}

\* char::is_ascii_whitespace: space, tab, line feed, form feed, carriage return.
AsciiWhitespace == {" ", "\t", "\n", "\f", "\r"}

\* The characters the take_while of extract_pence lets through.
NumberChars == CharsOf(AsciiDigits) \cup {".", ",", "-"}

\* String::retain(|c| c is not in drop)
RECURSIVE RetainNotIn(_, _)
RetainNotIn(s, drop) ==
    IF s = "" THEN ""
    ELSE LET c == SubSeq(s, 1, 1)
             rest == RetainNotIn(SliceFrom(s, 1), drop)
         IN  IF c \in drop THEN rest ELSE c \o rest

\* s.chars().take_while(|c| c is in keep).collect()
RECURSIVE TakeWhileIn(_, _)
TakeWhileIn(s, keep) ==
    IF s = "" THEN ""
    ELSE LET c == SubSeq(s, 1, 1)
         IN  IF c \in keep THEN c \o TakeWhileIn(SliceFrom(s, 1), keep) ELSE ""

\* str::to_lowercase, on ASCII text: a new String, the receiver is not changed.
RECURSIVE ToLowercase(_)
ToLowercase(s) ==
    IF s = "" THEN ""
    ELSE LET c == SubSeq(s, 1, 1)
             u == Find(AsciiUpper, c)
             lc == IF u # None THEN SubSeq(AsciiLower, u + 1, u + 1) ELSE c
         IN  lc \o ToLowercase(SliceFrom(s, 1))

-----------------------------------------------------------------------------
(* str::parse::<f32> on the texts extract_pence hands it: after its         *)
(* take_while and retain these hold only digits, '.' and '-'.               *)

RECURSIVE DigitsToNat(_, _)
DigitsToNat(s, acc) ==
    IF s = "" THEN acc
    ELSE DigitsToNat(SliceFrom(s, 1), 10 * acc + Find(AsciiDigits, SubSeq(s, 1, 1)))

F32Ok(v) == [ok |-> TRUE, val |-> v, err |-> NoError]
F32Err(e) == [ok |-> FALSE, val |-> Zero, err |-> e]

\* dec2flt: an optional sign, then digits with an optional '.' and more digits,
\* at least one digit in all; nothing may follow.
ParseF32(s) ==
    IF s = "" THEN F32Err(CannotParseNumber("cannot parse float from empty string"))
    ELSE
    LET first == SubSeq(s, 1, 1)
        negative == first = "-"
        unsigned == IF first \in {"-", "+"} THEN SliceFrom(s, 1) ELSE s
        integral == TakeWhileIn(unsigned, CharsOf(AsciiDigits))
        afterInt == SliceFrom(unsigned, Len(integral))
        hasPoint == afterInt # "" /\ SubSeq(afterInt, 1, 1) = "."
        fractional == IF hasPoint
                      THEN TakeWhileIn(SliceFrom(afterInt, 1), CharsOf(AsciiDigits))
                      ELSE ""
        trailing == IF hasPoint
                    THEN SliceFrom(afterInt, 1 + Len(fractional))
                    ELSE afterInt
        mantissa == DigitsToNat(integral \o fractional, 0)
        invalid == CannotParseNumber("invalid float literal")
    IN  IF trailing # "" \/ (integral = "" /\ fractional = "")
        THEN F32Err(invalid)
        ELSE F32Ok(Dec(IF negative THEN 0 - mantissa ELSE mantissa, Len(fractional)))

-----------------------------------------------------------------------------
(* extract_up_to_next_tag and extract_pence *)

ExtractUpToNextTag(s) ==
    LET idx == Find(s, "<")
    IN  IF idx # None
        THEN [ok |-> TRUE, val |-> SliceTo(s, idx), err |-> NoError]
        ELSE [ok |-> FALSE, val |-> "",
              err |-> CannotParseDocument("Cannot find next '<' character")]

\* extract_pence.  Line 382, s.to_lowercase(), builds the lower-cased String and
\* drops it: s keeps its case for the comparison with "n/a" that follows.
ExtractPence(s) ==
    LET upTo == ExtractUpToNextTag(s)
    IN  IF ~upTo.ok THEN F32Err(upTo.err)
        ELSE
        LET s1 == RetainNotIn(upTo.val, AsciiWhitespace)
            dropped == ToLowercase(s1)
        IN  IF Len(s1) = 0 \/ s1 = "n/a" THEN F32Ok(Zero)
            ELSE
            LET s2 == TakeWhileIn(s1, NumberChars)
                s3 == RetainNotIn(s2, {","})
            IN  ParseF32(s3)

-----------------------------------------------------------------------------
(* Stock, Source, Price *)

NoF32 == [some |-> FALSE, val |-> Zero]
Some(v) == [some |-> TRUE, val |-> v]

\* The Price download_price starts from (lines 308-315).  The date, Utc::today(),
\* is the same for every record of a run and is left out.
NewPrice(s) ==
    [stock_id |-> s.id, price |-> Zero, prev_price |-> Zero,
     fifty_two_week_high |-> NoF32, fifty_two_week_low |-> NoF32]

-----------------------------------------------------------------------------
(* download_price: the statements of each branch, in order.  A "chomp" is   *)
(* body.chomp(s)?; an "extract" is extract_pence(&body)? stored in a field. *)

ChompOp(s) == [op |-> "chomp", s |-> s, field |-> ""]
ExtractOp(f) == [op |-> "extract", s |-> "", field |-> f]

\* if source.id == 1: a Digital Look equity (lines 319-340).
EquityLayout ==
    << ChompOp("Market Data</h2>"), ChompOp("precio_ultima_cotizacion"),
       ChompOp(">"), ExtractOp("price"),
       ChompOp("variacion_puntos"), ChompOp(">"), ChompOp(">"),
       ExtractOp("price_change_today"),
       ChompOp("High 52 week range"), ChompOp("<td>"),
       ExtractOp("fifty_two_week_high"),
       ChompOp("Low 52 week range"), ChompOp("<td>"),
       ExtractOp("fifty_two_week_low") >>

\* else if source.id == 2: a Digital Look ETF (lines 343-364).
EtfLayout ==
    << ChompOp("Detailed Price Data</h2>"), ChompOp("<td>Price:</td>"),
       ChompOp(">"), ExtractOp("price"),
       ChompOp("<td>Change:</td>"), ChompOp("<td>"), ChompOp(">"),
       ExtractOp("price_change_today"),
       ChompOp("52 week High"), ChompOp("<td>"),
       ExtractOp("fifty_two_week_high"),
       ChompOp("52 week Low"), ChompOp("<td>"),
       ExtractOp("fifty_two_week_low") >>

\* A selection that treats every source that is not an equity as an ETF.
LayoutElseEtf(source_id) ==
    IF source_id = 1 THEN EquityLayout ELSE EtfLayout

\* The if / else if on source.id (lines 317, 341): no else branch.
Layout(source_id) ==
    IF source_id = 1 THEN EquityLayout
    ELSE IF source_id = 2 THEN EtfLayout
    ELSE << >>

\* The state of one download_price call: the mutable body and price.
Extraction(b, p) == [body |-> b, price |-> p]

\* An assignment of the change that adds it instead of subtracting it.
StoreFieldAddsChange(p, field, v) ==
    IF field = "price" THEN [p EXCEPT !.price = v]
    ELSE IF field = "price_change_today"
    THEN [p EXCEPT !.prev_price = F32AddWrong(p.price, v)]
    ELSE IF field = "fifty_two_week_high"
    THEN [p EXCEPT !.fifty_two_week_high = Some(v)]
    ELSE [p EXCEPT !.fifty_two_week_low = Some(v)]

\* What each branch does with an extracted number (lines 322, 329, 334, 339).
StoreField(p, field, v) ==
    IF field = "price" THEN [p EXCEPT !.price = v]
    ELSE IF field = "price_change_today"
    THEN [p EXCEPT !.prev_price = F32Sub(p.price, v)]
    ELSE IF field = "fifty_two_week_high"
    THEN [p EXCEPT !.fifty_two_week_high = Some(v)]
    ELSE [p EXCEPT !.fifty_two_week_low = Some(v)]

\* One statement of a branch: the Result it evaluates to and the state after it.
Statement(st, o) ==
    IF o.op = "chomp"
    THEN LET r == Chomp(st.body, o.s)
         IN  [ok |-> r.ok, err |-> r.err, st |-> Extraction(r.self, st.price)]
    ELSE LET r == ExtractPence(st.body)
         IN  [ok |-> r.ok, err |-> r.err,
              st |-> IF r.ok
                     THEN Extraction(st.body, StoreField(st.price, o.field, r.val))
                     ELSE st]

\* A `?` that never returns early: the error is dropped and the function goes on.
QuestionMarkIgnores(r) == FALSE

\* The `?` operator: whether the Result makes the function return early.
QuestionMark(r) == ~r.ok

\* Result<Price, StockPriceError>: price holds the one Price of an Ok, nothing
\* of an Err.
PriceOk(p) == [ok |-> TRUE, price |-> <<p>>, err |-> NoError]
PriceErr(e) == [ok |-> FALSE, price |-> << >>, err |-> e]

\* The statements of download_price from number k on, then Ok(price).
RECURSIVE RunLayout(_, _, _)
RunLayout(st, ops, k) ==
    IF k > Len(ops) THEN PriceOk(st.price)
    ELSE LET r == Statement(st, ops[k])
         IN  IF QuestionMark(r) THEN PriceErr(r.err)
             ELSE RunLayout(r.st, ops, k + 1)

\* What reqwest::get(&url)?.text()? can answer: an error or a document.
NetworkError == [ok |-> FALSE, text |-> "", err |-> Request("error sending request")]
Fetched(doc) == [ok |-> TRUE, text |-> doc, err |-> NoError]

Url(s, src) == src.url \o s.digital_look_name

\* download_price(stock, source), given what the GET of its url answered.
DownloadPrice(s, src, response) ==
    IF QuestionMark(response) THEN PriceErr(response.err)
    ELSE RunLayout(Extraction(response.text, NewPrice(s)), Layout(src.id), 1)

-----------------------------------------------------------------------------
(* download_prices and the part of main that prepares its arguments *)

\* The symbols of the model, in the order String::cmp puts them.
SymbolPool == <<"CUKX", "ISF", "RDSB", "VOD", "ZZZ">>

Rank(symbol) == CHOOSE i \in DOMAIN SymbolPool : SymbolPool[i] = symbol

\* a.symbol.cmp(&b.symbol) == Less
SymbolLess(a, b) == Rank(a.symbol) < Rank(b.symbol)

\* Vec::sort_by is stable: a row goes after the rows that do not compare greater.
RECURSIVE InsertSorted(_, _)
InsertSorted(sorted, row) ==
    IF sorted = << >> THEN <<row>>
    ELSE IF SymbolLess(row, Head(sorted)) THEN <<row>> \o sorted
    ELSE <<Head(sorted)>> \o InsertSorted(Tail(sorted), row)

RECURSIVE SortBySymbol(_)
SortBySymbol(rows) ==
    IF rows = << >> THEN << >>
    ELSE InsertSorted(SortBySymbol(SubSeq(rows, 1, Len(rows) - 1)), rows[Len(rows)])

FilterEnabled(rows) == SelectSeq(rows, LAMBDA s : s.enabled)

Take(rows, n) == SubSeq(rows, 1, IF n < Len(rows) THEN n ELSE Len(rows))

\* The default of --number.
NumStocksDefault == 100000

\* main, lines 206-209: sort by symbol, keep the enabled rows, take num_stocks.
MainStocks(rows) == Take(FilterEnabled(SortBySymbol(rows)), NumStocksDefault)

\* sources.iter().find(|s| s.id == id): the first match, as a 0- or 1-element list.
FindSource(srcs, id) ==
    LET hits == {i \in DOMAIN srcs : srcs[i].id = id}
    IN  IF hits = {} THEN << >>
        ELSE <<srcs[CHOOSE i \in hits : \A j \in hits : i <= j]>>

\* The line download_prices pushes for a failed stock (line 292).
ErrorLine(s, e) ==
    "Could not download price " \o s.symbol \o ", error is " \o Display(e)

\* A match that puts each new entry at the front of its list.
CollectAtFront(ps, es, s, r) ==
    IF r.ok THEN [prices |-> <<r.price[1]>> \o ps, errors |-> es]
    ELSE [prices |-> ps, errors |-> <<ErrorLine(s, r.err)>> \o es]

\* A match whose Err arm starts the prices over.
CollectErrClearsPrices(ps, es, s, r) ==
    IF r.ok THEN [prices |-> Append(ps, r.price[1]), errors |-> es]
    ELSE [prices |-> << >>, errors |-> Append(es, ErrorLine(s, r.err))]

\* The match of lines 289-294: the two lists after the push.
Collect(ps, es, s, r) ==
    IF r.ok THEN [prices |-> Append(ps, r.price[1]), errors |-> es]
    ELSE [prices |-> ps, errors |-> Append(es, ErrorLine(s, r.err))]

\* A loop that stops at the first error.
LoopDoneOnError(i, ss, es) == i > Len(ss) \/ es # << >>

\* for stock in stocks (line 285): whether the iterator is exhausted.
LoopDone(i, ss, es) == i > Len(ss)

-----------------------------------------------------------------------------
(* The pages the network can answer with.  A page is written from four      *)
(* numbers; the text of each is rendered here and read back by              *)
(* extract_pence.                                                           *)

Digit(d) == SubSeq(AsciiDigits, d + 1, d + 1)

RECURSIVE NatToString(_)
NatToString(n) == IF n < 10 THEN Digit(n) ELSE NatToString(n \div 10) \o Digit(n % 10)

\* n with a ',' before every group of three digits, as the pages print it.
RECURSIVE Grouped(_)
Grouped(n) ==
    IF n < 1000 THEN NatToString(n)
    ELSE Grouped(n \div 1000) \o ","
         \o Digit((n % 1000) \div 100) \o Digit((n % 100) \div 10) \o Digit(n % 10)

RECURSIVE FractionDigits(_, _)
FractionDigits(f, e) ==
    IF e = 0 THEN "" ELSE FractionDigits(f \div 10, e - 1) \o Digit(f % 10)

\* The decimal text of value v, with at least `places` digits after the point.
RenderF32(v, places) ==
    LET e == IF v.e > places THEN v.e ELSE places
        m == (IF v.m < 0 THEN 0 - v.m ELSE v.m) * Pow10(e - v.e)
    IN  (IF v.m < 0 THEN "-" ELSE "")
        \o Grouped(m \div Pow10(e))
        \o (IF e > 0 THEN "." \o FractionDigits(m % Pow10(e), e) ELSE "")

RECURSIVE Concat(_)
Concat(parts) == IF parts = << >> THEN "" ELSE Head(parts) \o Concat(Tail(parts))

\* An equity page of Digital Look, cut into the pieces the scan steps over.
EquityParts(p, c, h, l) ==
    << "<h2>CLLN ", "Market Data</h2>", "<td class=precio_ultima_cotizacion", ">",
       p, "</td>", "<td class=variacion_puntos", ">", "<span>", c, "</span></td>",
       "<th>High 52 week range</th>", "<td>", h, "</td>",
       "<th>Low 52 week range</th>", "<td>", l, "</td>" >>

\* A fund / ETF page of Digital Look.
EtfParts(p, c, h, l) ==
    << "<h2>ISF ", "Detailed Price Data</h2>", "<td>Price:</td>", "<td class=r>",
       p, "</td>", "<td>Change:</td>", "<td>", "<span>", c, "</span></td>",
       "<td>52 week High</td>", "<td>", h, "</td>",
       "<td>52 week Low</td>", "<td>", l, "</td>" >>

PageParts(layout, p, c, h, l) ==
    IF layout = 1 THEN EquityParts(p, c, h, l) ELSE EtfParts(p, c, h, l)

\* The numbers of the pages: 150, 5, 200, 100, -12.3 and 1,234.56.
PageValues == {Dec(150, 0), Dec(5, 0), Dec(200, 0), Dec(100, 0)}
ChangeValues == {Dec(5, 0), Dec(0 - 123, 1), Dec(123456, 2)}

\* How a page prints a number: bare, or padded, to two places and with a unit.
Plain(v) == RenderF32(v, 0)
Padded(v) == " " \o RenderF32(v, 2) \o "p\n"

NoFixture == [layout |-> 0, p |-> Zero, c |-> Zero, h |-> Zero, l |-> Zero]

\* Well-formed pages, each with the numbers it was written with.
GoodPages ==
    UNION {
        { [text |-> Concat(PageParts(layout, Plain(p), Plain(c), Plain(h), Plain(l))),
           fixture |-> [layout |-> layout, p |-> p, c |-> c, h |-> h, l |-> l]],
          [text |-> Concat(PageParts(layout, Padded(p), Padded(c), Padded(h), Padded(l))),
           fixture |-> [layout |-> layout, p |-> p, c |-> c, h |-> h, l |-> l]] }
        : layout \in {1, 2}, p \in PageValues \cup ChangeValues, c \in ChangeValues,
          h \in {Dec(200, 0), Dec(123456, 2)}, l \in {Dec(100, 0), Zero} }

StandardParts(layout) == PageParts(layout, "150.0", "5.0", "200.0", "100.0")

\* Pages cut short after any of their pieces.
TruncatedPages ==
    { [text |-> Concat(SubSeq(StandardParts(layout), 1, k)), fixture |-> NoFixture]
      : layout \in {1, 2}, k \in 0..(Len(StandardParts(1)) - 1) }

\* Pages with a field that is no number.
BadFieldTexts == {"abc", "1.2.3", "-", "N/A", "n/a", ""}

BadFieldPages ==
    UNION {
        { [text |-> Concat(PageParts(layout, b, "5.0", "200.0", "100.0")),
           fixture |-> NoFixture],
          [text |-> Concat(PageParts(layout, "150.0", b, "200.0", "100.0")),
           fixture |-> NoFixture],
          [text |-> Concat(PageParts(layout, "150.0", "5.0", b, "100.0")),
           fixture |-> NoFixture],
          [text |-> Concat(PageParts(layout, "150.0", "5.0", "200.0", b)),
           fixture |-> NoFixture] }
        : layout \in {1, 2}, b \in BadFieldTexts }

Pages == GoodPages \cup TruncatedPages \cup BadFieldPages

\* source.csv: the two Digital Look sources and one that download_price has no
\* branch for.
SourceTable ==
    << [id |-> 1, name |-> "Digital Look Equity",
        url |-> "http://www.digitallook.com/equity/"],
       [id |-> 2, name |-> "Digital Look ETF",
        url |-> "http://www.digitallook.com/etf/"],
       [id |-> 3, name |-> "Other", url |-> "http://example.com/"] >>

\* The source ids a row of stock.csv may hold; 4 is in no row of source.csv.
StockSourceIds == {1, 2, 3, 4}

StockRow(i, sid, en) ==
    [id |-> 100 + i, symbol |-> SymbolPool[i], digital_look_name |-> SymbolPool[i],
     source_id |-> sid, enabled |-> en]

NoStock == StockRow(1, 1, FALSE)
NoSource == [id |-> 0, name |-> "", url |-> ""]
NoResult == [ok |-> FALSE, price |-> << >>, err |-> NoError]
NoFailure == [step |-> 0, err |-> NoError]
NoPence == [ok |-> FALSE, val |-> Zero, err |-> NoError]

-----------------------------------------------------------------------------
(* The parts of the state a specification does not use *)

IdleDoc == text = "" /\ body = ""
IdleChomp == lastChomp = [called |-> FALSE, s |-> "", before |-> "", ok |-> TRUE,
                          err |-> NoError]
IdlePence == input = "" /\ penceResult = NoPence
IdlePrice ==
    /\ stock = NoStock
    /\ source = NoSource
    /\ price = NewPrice(NoStock)
    /\ step = 0
    /\ result = NoResult
    /\ failedAt = NoFailure
    /\ fixture = NoFixture
IdleBatch ==
    /\ raw = << >>
    /\ stocks = << >>
    /\ sources = << >>
    /\ pos = 0
    /\ prices = << >>
    /\ errors = << >>
    /\ attempts = << >>
    /\ panic = ""

-----------------------------------------------------------------------------
(* SpecChomp: chomp calls with arbitrary markers on arbitrary text *)

ChompAlphabet == {"a", ">"}

\* The strings of the unit tests chomp_when_pattern_exists_returns_following_text
\* and chomp_when_pattern_does_not_exist_returns_error.
TestTexts == {"<h2>CLLN Market Data</h2> whatever", "hello world"}
TestMarkers == {"Data</h2>", "h2>", "whatever", "BLAH"}

ChompTexts == StringsUpTo(ChompAlphabet, MaxTextLen) \cup TestTexts
ChompMarkers == StringsUpTo(ChompAlphabet, MaxMarkerLen) \cup TestMarkers

InitChomp ==
    /\ pc = "chomp"
    /\ text \in ChompTexts
    /\ body = text
    /\ IdleChomp /\ IdlePence /\ IdlePrice /\ IdleBatch

DoChomp(s) ==
    /\ pc = "chomp"
    /\ LET r == Chomp(body, s)
       IN  /\ body' = r.self
           /\ lastChomp' = [called |-> TRUE, s |-> s, before |-> body,
                            ok |-> r.ok, err |-> r.err]
    /\ UNCHANGED <<pc, text, penceVars, priceVars, batchVars>>

NextChomp == \E s \in ChompMarkers : DoChomp(s)

SpecChomp == InitChomp /\ [][NextChomp]_vars

-----------------------------------------------------------------------------
(* SpecPence: one extract_pence call on an arbitrary buffer *)

PenceAlphabet == {"1", ".", ",", "-", " ", "<"}

\* The fields of the specification's examples and the spellings of "n/a".
PenceExamples ==
    {"1,234.56<td>", "N/A<td>", "n/a<td>", " N/a <td>", "<td>", "-12.3<td>",
     "", "150.0", "12.5p</td>", "abc<", "1.2.3<", "n/a", "N / A<", "\tn/a\n<td>",
     "n/a1<", "-<", ".<", "5.<", ".5<", "0.50<", "1e3<", "+1<", "--1<"}

PenceInputs == StringsUpTo(PenceAlphabet, MaxPenceLen) \cup PenceExamples

InitPence ==
    /\ pc = "extract_pence"
    /\ input \in PenceInputs
    /\ penceResult = NoPence
    /\ IdleDoc /\ IdleChomp /\ IdlePrice /\ IdleBatch

CallExtractPence ==
    /\ pc = "extract_pence"
    /\ penceResult' = ExtractPence(input)
    /\ pc' = "returned"
    /\ UNCHANGED <<input, docVars, chompVars, priceVars, batchVars>>

NextPence == CallExtractPence

SpecPence == InitPence /\ [][NextPence]_vars

-----------------------------------------------------------------------------
(* SpecPrice: one download_price call, statement by statement *)

Responses(pages) == {NetworkError} \cup {Fetched(d.text) : d \in pages}

InitPrice ==
    /\ pc = "fetch"
    /\ \E i \in DOMAIN SourceTable : source = SourceTable[i]
    /\ stock = StockRow(1, source.id, TRUE)
    /\ price = NewPrice(NoStock)
    /\ step = 0
    /\ result = NoResult
    /\ failedAt = NoFailure
    /\ fixture = NoFixture
    /\ IdleDoc /\ IdleChomp /\ IdlePence /\ IdleBatch

\* Lines 301-315: the GET, its two `?`, and the initial Price.
Fetch ==
    /\ pc = "fetch"
    /\ \/ \E d \in Pages :
            /\ LET response == Fetched(d.text)
               IN  /\ ~QuestionMark(response)
                   /\ text' = response.text
                   /\ body' = response.text
            /\ fixture' = d.fixture
            /\ price' = NewPrice(stock)
            /\ step' = 1
            /\ pc' = "branch"
            /\ UNCHANGED <<result, failedAt>>
       \/ /\ QuestionMark(NetworkError)
          /\ result' = PriceErr(NetworkError.err)
          /\ failedAt' = [step |-> 0, err |-> NetworkError.err]
          /\ pc' = "returned"
          /\ UNCHANGED <<text, body, fixture, price, step>>
    /\ UNCHANGED <<stock, source, chompVars, penceVars, batchVars>>

\* The next statement of the branch for source.id (lines 317-365).
RunStatement ==
    /\ pc = "branch"
    /\ step <= Len(Layout(source.id))
    /\ LET r == Statement(Extraction(body, price), Layout(source.id)[step])
       IN  /\ failedAt' = IF ~r.ok /\ failedAt = NoFailure
                          THEN [step |-> step, err |-> r.err]
                          ELSE failedAt
           /\ IF QuestionMark(r)
              THEN /\ result' = PriceErr(r.err)
                   /\ pc' = "returned"
                   /\ UNCHANGED <<body, price, step>>
              ELSE /\ body' = r.st.body
                   /\ price' = r.st.price
                   /\ step' = step + 1
                   /\ UNCHANGED <<result, pc>>
    /\ UNCHANGED <<text, stock, source, fixture, chompVars, penceVars, batchVars>>

\* Ok(price), line 369.
ReturnPrice ==
    /\ pc = "branch"
    /\ step > Len(Layout(source.id))
    /\ result' = PriceOk(price)
    /\ pc' = "returned"
    /\ UNCHANGED <<docVars, stock, source, price, step, failedAt, fixture,
                   chompVars, penceVars, batchVars>>

NextPrice == Fetch \/ RunStatement \/ ReturnPrice

SpecPrice == InitPrice /\ [][NextPrice]_vars

-----------------------------------------------------------------------------
(* Spec: main's preparation of the stocks, then download_prices *)

\* The orders in which stock.csv may list its rows: by symbol, by symbol
\* backwards, and by symbol starting from the second.
RowOrders ==
    { [k \in 1..MaxStocks |-> k],
      [k \in 1..MaxStocks |-> MaxStocks + 1 - k],
      [k \in 1..MaxStocks |-> (k % MaxStocks) + 1] }

\* What the GET of a stock's page can answer in a batch.
BatchPages ==
    { [text |-> Concat(StandardParts(1)), fixture |-> NoFixture],
      [text |-> Concat(StandardParts(2)), fixture |-> NoFixture],
      [text |-> "<html>Not found</html>", fixture |-> NoFixture] }

Init ==
    /\ pc = "main"
    /\ \E o \in RowOrders, sid \in [1..MaxStocks -> StockSourceIds],
          en \in [1..MaxStocks -> BOOLEAN] :
            raw = [k \in 1..MaxStocks |-> StockRow(o[k], sid[o[k]], en[o[k]])]
    /\ sources = SourceTable
    /\ stocks = << >>
    /\ pos = 0
    /\ prices = << >>
    /\ errors = << >>
    /\ attempts = << >>
    /\ panic = ""
    /\ IdleDoc /\ IdleChomp /\ IdlePence /\ IdlePrice

\* main, lines 206-216: the rows are sorted and filtered (into_iter consumes the
\* Vec read from the file) and download_prices is called.
ReadStocks ==
    /\ pc = "main"
    /\ stocks' = MainStocks(raw)
    /\ raw' = << >>
    /\ pos' = 1
    /\ pc' = "loop"
    /\ UNCHANGED <<sources, prices, errors, attempts, panic,
                   docVars, chompVars, penceVars, priceVars>>

\* One turn of the for loop whose Source is found (lines 286-294).
Download ==
    /\ pc = "loop"
    /\ ~LoopDone(pos, stocks, errors)
    /\ FindSource(sources, stocks[pos].source_id) # << >>
    /\ \E response \in Responses(BatchPages) :
        LET s == stocks[pos]
            src == FindSource(sources, s.source_id)[1]
            r == DownloadPrice(s, src, response)
            lists == Collect(prices, errors, s, r)
        IN  /\ prices' = lists.prices
            /\ errors' = lists.errors
            /\ attempts' = Append(attempts,
                                  [pos |-> pos, url |-> Url(s, src),
                                   fetched |-> response.ok, text |-> response.text,
                                   ok |-> r.ok])
    /\ pos' = pos + 1
    /\ UNCHANGED <<pc, raw, stocks, sources, panic,
                   docVars, chompVars, penceVars, priceVars>>

\* One turn of the for loop whose Source is not found: expect panics (line 287).
MissingSource ==
    /\ pc = "loop"
    /\ ~LoopDone(pos, stocks, errors)
    /\ FindSource(sources, stocks[pos].source_id) = << >>
    /\ panic' = "Cannot find Source for Stock " \o stocks[pos].symbol
    /\ pc' = "panicked"
    /\ UNCHANGED <<raw, stocks, sources, pos, prices, errors, attempts,
                   docVars, chompVars, penceVars, priceVars>>

\* (prices, errors), line 297.
Return ==
    /\ pc = "loop"
    /\ LoopDone(pos, stocks, errors)
    /\ pc' = "returned"
    /\ UNCHANGED <<batchVars, docVars, chompVars, penceVars, priceVars>>

Next == ReadStocks \/ Download \/ MissingSource \/ Return

Spec == Init /\ [][Next]_vars

-----------------------------------------------------------------------------
(* Properties of chomp, under SpecChomp *)

\* C4: for every text t and non-empty marker m, chomp(m) on t succeeds when m
\* occurs in t and leaves the suffix of t right after the first occurrence of m;
\* when m does not occur it fails and the error reads
\* "Cannot parse document, Cannot find <m> in string".
C4_ChompContract ==
    (lastChomp.called /\ lastChomp.s # "") =>
        LET t == lastChomp.before
            m == lastChomp.s
            occ == {i \in 1..Len(t) : i + Len(m) - 1 <= Len(t)
                                      /\ SubSeq(t, i, i + Len(m) - 1) = m}
        IN  IF occ # {}
            THEN /\ lastChomp.ok
                 /\ \E i \in occ :
                      /\ \A j \in occ : i <= j
                      /\ body = SubSeq(t, i + Len(m), Len(t))
            ELSE /\ ~lastChomp.ok
                 /\ Display(lastChomp.err)
                      = "Cannot parse document, Cannot find " \o m \o " in string"

\* The second case of chomp_when_pattern_exists_returns_following_text: "h2>"
\* occurs twice and the buffer is cut after the first.
C4_Witness ==
    /\ lastChomp.called
    /\ lastChomp.before = "<h2>CLLN Market Data</h2> whatever"
    /\ lastChomp.s = "h2>"
    /\ lastChomp.ok
    /\ body = "CLLN Market Data</h2> whatever"

IsSuffix(s, t) == Len(s) <= Len(t) /\ SubSeq(t, Len(t) - Len(s) + 1, Len(t)) = s

\* C9: the scan only moves forward: the buffer is always a suffix of the
\* original document, a successful chomp with a non-empty marker makes it
\* strictly shorter, a failed chomp leaves it unchanged, and the text a chomp
\* matches lies wholly in what the earlier chomps left, never in consumed text.
C9_ForwardOnly ==
    /\ IsSuffix(body, text)
    /\ lastChomp.called =>
        LET consumedBefore == Len(text) - Len(lastChomp.before)
            matchStart == Len(text) - Len(body) - Len(lastChomp.s)
        IN  /\ IsSuffix(lastChomp.before, text)
            /\ (lastChomp.ok /\ lastChomp.s # "") => Len(body) < Len(lastChomp.before)
            /\ ~lastChomp.ok => body = lastChomp.before
            /\ lastChomp.ok =>
                 /\ matchStart >= consumedBefore
                 /\ SubSeq(text, matchStart + 1, matchStart + Len(lastChomp.s))
                      = lastChomp.s

\* A second chomp whose marker "a" also occurs in the text the first consumed.
C9_Witness ==
    /\ text = "a>a>"
    /\ lastChomp.called
    /\ lastChomp.before = ">a>"
    /\ lastChomp.s = "a"
    /\ lastChomp.ok
    /\ body = ">"

-----------------------------------------------------------------------------
(* Properties of extract_pence, under SpecPence *)

\* C5: extract_pence removes ASCII whitespace from the text before the next
\* '<' and lower-cases it, and returns 0.0, not an error, whenever the result is
\* empty or "n/a" ("N/A<td>", "n/a<td>", " N/a <td>" and "<td>" all give 0.0).
C5_NotAvailableIsZero ==
    (pc = "returned" /\ \E i \in 1..Len(input) : SubSeq(input, i, i) = "<") =>
        LET lt == CHOOSE i \in 1..Len(input) :
                      /\ SubSeq(input, i, i) = "<"
                      /\ \A j \in 1..(i - 1) : SubSeq(input, j, j) # "<"
            normalized == ToLowercase(RetainNotIn(SubSeq(input, 1, lt - 1),
                                                  AsciiWhitespace))
        IN  normalized \in {"", "n/a"} =>
                penceResult.ok /\ penceResult.val = Zero

-----------------------------------------------------------------------------
(* Properties of download_price, under SpecPrice *)

\* C6: extraction is fail-fast: once a fetch, a chomp or an extract_pence of
\* download_price has failed, the call has returned that very error, no later
\* statement of the branch was run, and no Price is returned.
C6_FailFast ==
    failedAt # NoFailure =>
        /\ pc = "returned"
        /\ ~result.ok
        /\ result.err = failedAt.err
        /\ result.price = << >>
        /\ step = failedAt.step

\* The change field of an equity page is no number: the price was already
\* stored in the local record, and the call returns the error alone.
C6_Witness ==
    /\ pc = "returned"
    /\ source.id = 1
    /\ failedAt.step = 8
    /\ failedAt.err.kind = "CannotParseNumber"
    /\ price.price = Dec(150, 0)
    /\ ~result.ok
    /\ result.price = << >>

\* C7: for source id 1 (equity) and 2 (fund/ETF), a page holding the layout's
\* markers in order, each group followed by a number - p, c, h, l - gives a
\* record with price = p, prev_price = p - c, fifty_two_week_high = Some(h) and
\* fifty_two_week_low = Some(l).
C7_FieldsOfGoodPage ==
    (pc = "returned" /\ fixture.layout # 0 /\ fixture.layout = source.id) =>
        /\ result.ok
        /\ Len(result.price) = 1
        /\ LET got == result.price[1]
               Scaled(v) == v.m * Pow10(6 - v.e)
           IN  /\ got.stock_id = stock.id
               /\ got.price = fixture.p
               /\ Scaled(got.prev_price) = Scaled(fixture.p) - Scaled(fixture.c)
               /\ got.fifty_two_week_high = [some |-> TRUE, val |-> fixture.h]
               /\ got.fifty_two_week_low = [some |-> TRUE, val |-> fixture.l]

\* The equity page with 150, 5, 200, 100: price 150, prev_price 145.
C7_Witness ==
    /\ pc = "returned"
    /\ source.id = 1
    /\ fixture = [layout |-> 1, p |-> Dec(150, 0), c |-> Dec(5, 0),
                  h |-> Dec(200, 0), l |-> Dec(100, 0)]
    /\ result.ok
    /\ result.price[1].price = Dec(150, 0)
    /\ result.price[1].prev_price = Dec(145, 0)

-----------------------------------------------------------------------------
(* Properties of download_prices, under Spec *)

AllSourcesResolve ==
    \A i \in DOMAIN stocks : \E k \in DOMAIN sources : sources[k].id = stocks[i].source_id

PricesOf(s) == {k \in DOMAIN prices : prices[k].stock_id = s.id}

NamesSymbol(line, s) ==
    LET prefix == "Could not download price " \o s.symbol \o ","
    IN  Len(line) >= Len(prefix) /\ SubSeq(line, 1, Len(prefix)) = prefix

ErrorsOf(s) == {k \in DOMAIN errors : NamesSymbol(errors[k], s)}

Failed == {a \in DOMAIN attempts : ~attempts[a].ok}

\* C1: when every source id resolves, download_prices returns N - F prices and
\* F errors for N stocks of which F fail; every stock has exactly one entry in
\* exactly one of the lists, an error entry names the symbol of its stock, and
\* at no point does a failure remove an entry collected before.
C1_OneEntryPerStock ==
    /\ \A a \in DOMAIN attempts :
         LET s == stocks[attempts[a].pos]
         IN  /\ Cardinality(PricesOf(s)) = (IF attempts[a].ok THEN 1 ELSE 0)
             /\ Cardinality(ErrorsOf(s)) = (IF attempts[a].ok THEN 0 ELSE 1)
    /\ (pc = "returned" /\ AllSourcesResolve) =>
         /\ Len(prices) = Len(stocks) - Cardinality(Failed)
         /\ Len(errors) = Cardinality(Failed)
         /\ \A i \in DOMAIN stocks :
              Cardinality(PricesOf(stocks[i])) + Cardinality(ErrorsOf(stocks[i])) = 1

\* Three stocks, the first and the last fail, the one between is kept.
C1_Witness ==
    /\ pc = "returned"
    /\ Len(stocks) = 3
    /\ ~attempts[1].ok /\ attempts[2].ok /\ ~attempts[3].ok
    /\ Len(prices) = 1
    /\ Len(errors) = 2

PositionOfId(id) == CHOOSE i \in DOMAIN stocks : stocks[i].id = id
PositionOfLine(line) == CHOOSE i \in DOMAIN stocks : NamesSymbol(line, stocks[i])

\* C2: the stocks handed to download_prices are sorted by symbol and enabled,
\* and the prices and the errors each keep that order: of two entries of the
\* same list, the one of the earlier stock comes first.
C2_OrderPreserved ==
    /\ \A i, j \in DOMAIN stocks :
         i < j => Rank(stocks[i].symbol) < Rank(stocks[j].symbol)
    /\ \A i \in DOMAIN stocks : stocks[i].enabled
    /\ \A k1, k2 \in DOMAIN prices :
         k1 < k2 => PositionOfId(prices[k1].stock_id) < PositionOfId(prices[k2].stock_id)
    /\ \A k1, k2 \in DOMAIN errors :
         k1 < k2 => PositionOfLine(errors[k1]) < PositionOfLine(errors[k2])

\* Two prices with a failure between them.
C2_Witness ==
    /\ pc = "returned"
    /\ Len(prices) = 2
    /\ Len(errors) = 1
    /\ attempts[1].ok /\ ~attempts[2].ok /\ attempts[3].ok
    /\ prices[1].stock_id = stocks[1].id
    /\ prices[2].stock_id = stocks[3].id

\* C3: if a stock references a source id that is not in the source table, the
\* run aborts before any stock's fetch is dispatched: the abort is never
\* reached after a fetch was started.
C3_AbortBeforeAnyFetch ==
    pc = "panicked" => attempts = << >>

\* C8: a stock whose source is in the table with an id other than 1 and 2, and
\* whose fetch succeeds, gets an all-default record (price 0.0, prev_price 0.0,
\* no 52-week fields) whatever the page holds; it is in the prices and not in
\* the errors.
C8_UnknownSourceDefaults ==
    \A a \in DOMAIN attempts :
        LET s == stocks[attempts[a].pos]
        IN  (s.source_id \notin {1, 2} /\ attempts[a].fetched) =>
                /\ attempts[a].ok
                /\ \E k \in DOMAIN prices :
                     prices[k] = [stock_id |-> s.id, price |-> Zero, prev_price |-> Zero,
                                  fifty_two_week_high |-> [some |-> FALSE, val |-> Zero],
                                  fifty_two_week_low |-> [some |-> FALSE, val |-> Zero]]
                /\ Cardinality(PricesOf(s)) = 1
                /\ ErrorsOf(s) = {}

\* A stock of source 3 is answered a well-formed fund page.
C8_Witness ==
    \E a \in DOMAIN attempts :
        /\ stocks[attempts[a].pos].source_id = 3
        /\ attempts[a].fetched
        /\ attempts[a].text = Concat(StandardParts(2))
        /\ PricesOf(stocks[attempts[a].pos]) # {}

\* C10: download_prices returns only after every stock of the list was
\* attempted, each exactly once and in order: a failure neither ends the loop
\* nor keeps a later stock from being attempted.
C10_ReturnsAfterAllAttempted ==
    pc = "returned" =>
        /\ Len(attempts) = Len(stocks)
        /\ \A i \in DOMAIN attempts : attempts[i].pos = i

\* The first stock fails and the two after it are still attempted.
C10_Witness ==
    /\ pc = "returned"
    /\ Len(stocks) = 3
    /\ Len(attempts) = 3
    /\ ~attempts[1].ok
    /\ attempts[3].ok

=============================================================================
